---- MODULE Spec2Model ----
(***************************************************************************)
(* Model of clinic_app.py: the SQLite store (patients, treatments), the    *)
(* Streamlit handlers that write it, the record selection and standing     *)
(* computation of the Patient Records page, and generate_pdf.              *)
(*                                                                         *)
(* Money is an integer number of thousandths of a currency unit, so that   *)
(* 25.00 is 25000, the tolerance 0.01 is 10 and 0.009 is 9.  Dates are     *)
(* small integers ordered like the ISO strings the store keeps.            *)
(* treatment_type and the settings table are read by no decision of the    *)
(* modelled code (they are only printed) and are left out.                 *)
(***************************************************************************)
EXTENDS Integers, Sequences, FiniteSets, TLC

(***************************************************************************)
(* Bounds of the model.                                                    *)
(***************************************************************************)
MaxPatId == 2
MaxTreatId == 2
MaxDate == 2
MaxItems == 60
MaxBal == 60
MaxCsvRows == 1
MaxEditedRows == 1

(***************************************************************************)
(* Input sets of the widgets.                                              *)
(***************************************************************************)
Names == {"", "Ann"}
UniqueIds == {"", "A"}
Dates == 1..MaxDate

(***************************************************************************)
(* Program constants.                                                      *)
(***************************************************************************)
cost == 25000
HstPercent == 13
hst == (cost * HstPercent) \div 100
total == cost + hst
Tolerance == 10
NoDate == 0

PayAmounts == {0, total}
PaymentDates == {1}
EditTotals == {total, 20000}

VARIABLES patients, treatments, patSeq, treatSeq, out, records, probe, canvas

vars == <<patients, treatments, patSeq, treatSeq, out, records, probe, canvas>>

(***************************************************************************)
(* Storage classes.  sqlite3 binds a Python int as INTEGER; a numpy.int64  *)
(* (what patients_df.loc[...,'id'].values[0] yields) is no int subclass    *)
(* and has no adapter, but exports the buffer protocol, so sqlite3 binds   *)
(* it as a BLOB.  A column of INTEGER affinity stores a BLOB unchanged,    *)
(* and SQLite never finds an INTEGER equal to a BLOB.                      *)
(***************************************************************************)
IntVal(n) == <<"int", n>>
NumpyInt64(n) == <<"blob", n>>
SqlEq(a, b) == a = b

Max(a, b) == IF a >= b THEN a ELSE b

PatientIds == {p.id : p \in patients}

\* id INTEGER PRIMARY KEY AUTOINCREMENT: one more than the largest rowid ever used
NextRowid(seq) == seq + 1

\* a store that lost the UNIQUE constraint on unique_id
UniqueViolation_none(new_id) == FALSE

\* unique_id TEXT UNIQUE
UniqueViolation(new_id) == \E p \in patients : p.unique_id = new_id

\* id INTEGER PRIMARY KEY
PatientKeyViolation(id) == id \in PatientIds

NoOut == [op |-> "init"]
NoCanvas == [i |-> 0]

Init ==
    /\ patients = {}
    /\ treatments = {}
    /\ patSeq = 0
    /\ treatSeq = 0
    /\ out = NoOut
    /\ records = <<>>
    /\ probe = 0
    /\ canvas = NoCanvas

(***************************************************************************)
(* The four places that classify a balance.                                *)
(***************************************************************************)
\* generate_pdf, colour of a row's Diff cell
RowColor(diff) ==
    IF diff > Tolerance THEN "red"
    ELSE IF diff < -Tolerance THEN "green"
    ELSE "black"

\* generate_pdf, label of the grand balance line
GrandLabel(net_position) ==
    IF net_position > Tolerance THEN "BALANCE DUE:"
    ELSE IF net_position < -Tolerance THEN "CREDIT REMAINING:"
    ELSE "BALANCE:"

\* New Treatment page, text under "Amount Paid"
PaymentStatus(bal) ==
    IF bal > Tolerance THEN "Balance Remaining"
    ELSE IF bal < -Tolerance THEN "Overpayment (Credit)"
    ELSE "Paid in Full"

\* a standing that calls any nonzero net position owing or credit
StandingMetric_exact(net_position) ==
    IF net_position > 0 THEN "-OWING"
    ELSE IF net_position < 0 THEN "CREDIT"
    ELSE "OK"

\* Patient Records page, third metric of the financial status
StandingMetric(net_position) ==
    IF net_position > Tolerance THEN "-OWING"
    ELSE IF net_position < -Tolerance THEN "CREDIT"
    ELSE "OK"

\* the class each place's output stands for
ClassOf(shown) ==
    IF shown \in {"red", "BALANCE DUE:", "Balance Remaining", "-OWING"} THEN "OWING"
    ELSE IF shown \in {"green", "CREDIT REMAINING:", "Overpayment (Credit)", "CREDIT"} THEN "CREDIT"
    ELSE "SETTLED"

(***************************************************************************)
(* generate_pdf.  y is the cursor in points from the bottom of a letter    *)
(* page; showPage ends the current page.                                   *)
(***************************************************************************)
PageHeight == 792
PageBreakY == 100
RowStep == 20
FooterY == 50

\* a page break that waits for the footer line
NeedsNewPage_late(y) == y < FooterY

NeedsNewPage(y) == y < PageBreakY

\* the cursor and the running totals before the first row
TableStart ==
    [y |-> PageHeight - 240 - 25, shown |-> 0,
     total_billed |-> 0, total_paid |-> 0, rows |-> <<>>]

\* one pass of "for item in records"
DrawRow(acc, item) ==
    LET brk == NeedsNewPage(acc.y)
        y == IF brk THEN PageHeight - 50 ELSE acc.y
        shown == IF brk THEN acc.shown + 1 ELSE acc.shown
        billed == item.total
        paid == item.payment_amount
        diff == billed - paid
    IN [y |-> y - RowStep,
        shown |-> shown,
        total_billed |-> acc.total_billed + billed,
        total_paid |-> acc.total_paid + paid,
        rows |-> Append(acc.rows,
                        [id |-> item.id, page |-> shown + 1, y |-> y,
                         diff |-> diff, color |-> RowColor(diff)])]

\* "# Summary" to p.save(): the finished document
Summary(date_range_str, table) ==
    LET rule_y == table.y - 20
        billed_y == rule_y - 30
        paid_y == billed_y - 20
        balance_y == paid_y - 25
        net_position == table.total_billed - table.total_paid
    IN [period |-> date_range_str,
        n |-> Len(table.rows),
        rows |-> table.rows,
        rule_y |-> rule_y,
        billed_y |-> billed_y,
        paid_y |-> paid_y,
        balance_y |-> balance_y,
        summary_page |-> table.shown + 1,
        total_billed |-> table.total_billed,
        total_paid |-> table.total_paid,
        label |-> GrandLabel(net_position),
        amount |-> IF net_position > Tolerance THEN net_position
                   ELSE IF net_position < -Tolerance THEN -net_position
                   ELSE 0,
        footer_y |-> FooterY,
        pages |-> table.shown + 1]

RECURSIVE DrawRows(_, _, _)
DrawRows(recs, i, acc) ==
    IF i > Len(recs) THEN acc
    ELSE DrawRows(recs, i + 1, DrawRow(acc, recs[i]))

generate_pdf(date_range_str, recs) ==
    Summary(date_range_str, DrawRows(recs, 1, TableStart))

(***************************************************************************)
(* Queries of the Patient Records page.  pat_id is a numpy.int64.          *)
(***************************************************************************)
RECURSIVE OrderByDateDesc(_)
OrderByDateDesc(S) ==
    IF S = {} THEN <<>>
    ELSE LET first == CHOOSE t \in S : \A u \in S :
                          \/ t.treatment_date > u.treatment_date
                          \/ t.treatment_date = u.treatment_date /\ t.id <= u.id
         IN <<first>> \o OrderByDateDesc(S \ {first})

\* SELECT * FROM treatments WHERE patient_id = ?
TreatmentsWhere(param) == {t \in treatments : SqlEq(t.patient_id, param)}

\* ... AND treatment_date BETWEEN ? AND ?
Between(S, start_date, end_date) ==
    {t \in S : start_date <= t.treatment_date /\ t.treatment_date <= end_date}

RECURSIVE Sum(_, _)
Sum(S, column) ==
    IF S = {} THEN 0
    ELSE LET t == CHOOSE t \in S : TRUE IN column[t] + Sum(S \ {t}, column)

SumTotal(S) == Sum(S, [t \in S |-> t.total])
SumPaid(S) == Sum(S, [t \in S |-> t.payment_amount])

\* "2. CALCULATE STANDING (ALL TIME)": what the page shows
Standing(pat_id) ==
    LET all_time_df == TreatmentsWhere(NumpyInt64(pat_id))
        total_billed == SumTotal(all_time_df)
        total_paid == SumPaid(all_time_df)
        net_position == total_billed - total_paid
    IN IF all_time_df # {}
       THEN [shown |-> TRUE, total_billed |-> total_billed, total_paid |-> total_paid,
             metric |-> StandingMetric(net_position)]
       ELSE [shown |-> FALSE]

(***************************************************************************)
(* New Treatment page, "Register Patient".                                 *)
(***************************************************************************)
RegisterPatient(new_name, new_id) ==
    /\ IF UniqueViolation(new_id)
       THEN /\ out' = [op |-> "RegisterPatient", status |-> "error",
                       msg |-> "Patient ID already exists.",
                       new_name |-> new_name, new_id |-> new_id]
            /\ UNCHANGED <<patients, patSeq>>
       ELSE /\ patSeq < MaxPatId
            /\ patients' = patients \cup
                   {[id |-> NextRowid(patSeq), full_name |-> new_name, unique_id |-> new_id]}
            /\ patSeq' = NextRowid(patSeq)
            /\ out' = [op |-> "RegisterPatient", status |-> "success",
                       msg |-> "Registered", new_name |-> new_name, new_id |-> new_id]
    /\ UNCHANGED <<treatments, treatSeq, records, probe, canvas>>

(***************************************************************************)
(* New Treatment page, "Save Record".  The selectbox always holds one of   *)
(* the listed patients; selected_patient_id stays None only when the       *)
(* patients table is empty.  With "Payment Received?" ticked the amount    *)
(* widget accepts every value from 0.0 up.                                 *)
(***************************************************************************)
SaveRecord(selected_patient_id, treatment_date, is_paid, paid_on, amount_paid) ==
    LET payment_amount == IF is_paid THEN amount_paid ELSE 0
        payment_date == IF is_paid THEN paid_on ELSE NoDate
    IN /\ treatSeq < MaxTreatId
       /\ treatments' = treatments \cup
              {[id |-> NextRowid(treatSeq),
                patient_id |-> NumpyInt64(selected_patient_id),
                treatment_date |-> treatment_date,
                subtotal |-> cost, tax |-> hst, total |-> total,
                payment_amount |-> payment_amount,
                payment_date |-> payment_date]}
       /\ treatSeq' = NextRowid(treatSeq)
       /\ out' = [op |-> "SaveRecord", status |-> "success", msg |-> "Saved!"]
       /\ UNCHANGED <<patients, patSeq, records, probe, canvas>>

SaveRecordNoPatient ==
    /\ patients = {}
    /\ out' = [op |-> "SaveRecord", status |-> "error", msg |-> "Select a patient first."]
    /\ UNCHANGED <<patients, treatments, patSeq, treatSeq, records, probe, canvas>>

(***************************************************************************)
(* Patient Records page: the financial status shown for the selected       *)
(* patient each time the page is drawn.                                    *)
(***************************************************************************)
ViewRecords(pat_id) ==
    /\ out' = [op |-> "PatientRecords", pat_id |-> pat_id, standing |-> Standing(pat_id)]
    /\ UNCHANGED <<patients, treatments, patSeq, treatSeq, records, probe, canvas>>

(***************************************************************************)
(* Patient Records page, "Save Changes (Edits & Deletes)".  editor_df is   *)
(* the selected patient's rows; the user removes the rows in deleted_ids   *)
(* and retypes the cells of the rows in edits (id is disabled; subtotal    *)
(* and tax are not among the editor's columns).  Every row left in the     *)
(* editor is written back by an UPDATE of its five columns.  Rows added in *)
(* the editor have no id and are skipped.                                  *)
(***************************************************************************)
EditorCells == [treatment_date : Dates, total : EditTotals,
                payment_amount : PayAmounts, payment_date : {NoDate} \cup PaymentDates]

EditedRows(ids) == {e \in SUBSET ids : Cardinality(e) <= MaxEditedRows}

SaveChanges(pat_id, deleted_ids, edits) ==
    LET editor_df == TreatmentsWhere(NumpyInt64(pat_id))
        original_ids == {t.id : t \in editor_df}
        Updated(t) == IF t.id \in DOMAIN edits
                      THEN [t EXCEPT !.treatment_date = edits[t.id].treatment_date,
                                     !.total = edits[t.id].total,
                                     !.payment_amount = edits[t.id].payment_amount,
                                     !.payment_date = edits[t.id].payment_date]
                      ELSE t
    IN /\ deleted_ids \subseteq original_ids
       /\ DOMAIN edits \subseteq original_ids \ deleted_ids
       /\ treatments' = {Updated(t) : t \in {u \in treatments : u.id \notin deleted_ids}}
       /\ out' = [op |-> "SaveChanges", pat_id |-> pat_id, status |-> "success",
                  msg |-> "Changes saved successfully!"]
       /\ UNCHANGED <<patients, patSeq, treatSeq, records, probe, canvas>>

(***************************************************************************)
(* Patient Records page, "Generate Statement PDF".                         *)
(***************************************************************************)
DateStr(use_all_time, start_date, end_date) ==
    IF use_all_time THEN [text |-> "ALL TIME", from |-> NoDate, to |-> NoDate]
    ELSE [text |-> "to", from |-> start_date, to |-> end_date]

SelectRecords(pat_id, use_all_time, start_date, end_date) ==
    IF use_all_time
    THEN OrderByDateDesc(TreatmentsWhere(NumpyInt64(pat_id)))
    ELSE OrderByDateDesc(Between(TreatmentsWhere(NumpyInt64(pat_id)), start_date, end_date))

GenerateStatement(pat_id, use_all_time, start_date, end_date) ==
    LET range_df == SelectRecords(pat_id, use_all_time, start_date, end_date)
    IN /\ out' = IF range_df # <<>>
                 THEN [op |-> "GenerateStatement", pat_id |-> pat_id,
                       use_all_time |-> use_all_time,
                       start_date |-> start_date, end_date |-> end_date,
                       status |-> "download",
                       doc |-> generate_pdf(DateStr(use_all_time, start_date, end_date),
                                            range_df)]
                 ELSE [op |-> "GenerateStatement", pat_id |-> pat_id,
                       use_all_time |-> use_all_time,
                       start_date |-> start_date, end_date |-> end_date,
                       status |-> "error",
                       msg |-> "No records found in that date range."]
       /\ UNCHANGED <<patients, treatments, patSeq, treatSeq, records, probe, canvas>>

(***************************************************************************)
(* Patient Records page, "Permanently Delete Patient".                     *)
(***************************************************************************)
DeletePatient(pat_id) ==
    /\ treatments' = {t \in treatments : ~SqlEq(t.patient_id, NumpyInt64(pat_id))}
    /\ patients' = {p \in patients : ~SqlEq(IntVal(p.id), NumpyInt64(pat_id))}
    /\ out' = [op |-> "DeletePatient", pat_id |-> pat_id, status |-> "success",
               msg |-> "has been deleted."]
    /\ UNCHANGED <<patSeq, treatSeq, records, probe, canvas>>

(***************************************************************************)
(* Settings page, "Start Restore Process".  Each uploaded file is a set of *)
(* rows with the columns of the backup; to_sql(if_exists='append') inserts *)
(* a file's rows, ids included, in one transaction that it commits, or     *)
(* rolls back when a row violates a constraint.  read_csv yields Python    *)
(* ints for the integer columns.  The patients file is committed before    *)
(* the treatments file is tried.                                           *)
(* The rows are taken with every cell filled: read_csv turns an empty     *)
(* cell into NaN, which to_sql stores as NULL.                             *)
(***************************************************************************)
PatientsCsvRows ==
    [id : 1..MaxPatId, full_name : Names \ {""}, unique_id : UniqueIds \ {""}]

TreatmentsCsvRows ==
    {[id |-> i, patient_id |-> IntVal(p), treatment_date |-> d,
      subtotal |-> cost, tax |-> hst, total |-> total,
      payment_amount |-> pay[1], payment_date |-> pay[2]] :
        i \in 1..MaxTreatId, p \in 1..MaxPatId, d \in Dates,
        pay \in {<<total, pd>> : pd \in PaymentDates}}

CsvFiles(rows) == {f \in SUBSET rows : Cardinality(f) <= MaxCsvRows}

MaxId(S) == IF S = {} THEN 0 ELSE CHOOSE m \in S : \A k \in S : k <= m

PatientsIntegrityError(new_pats) ==
    \/ \E r \in new_pats : PatientKeyViolation(r.id) \/ UniqueViolation(r.unique_id)
    \/ \E r, q \in new_pats : r # q /\ (r.id = q.id \/ r.unique_id = q.unique_id)

TreatmentsIntegrityError(new_treats) ==
    \/ \E r \in new_treats : r.id \in {t.id : t \in treatments}
    \/ \E r, q \in new_treats : r # q /\ r.id = q.id

Restore(new_pats, new_treats) ==
    /\ IF PatientsIntegrityError(new_pats)
       THEN /\ out' = [op |-> "Restore", status |-> "error", restored |-> {},
                       msg |-> "Error: Some of this data already exists in the system."]
            /\ UNCHANGED <<patients, patSeq, treatments, treatSeq>>
       ELSE /\ patients' = patients \cup new_pats
            /\ patSeq' = Max(patSeq, MaxId({r.id : r \in new_pats}))
            /\ IF TreatmentsIntegrityError(new_treats)
               THEN /\ out' = [op |-> "Restore", status |-> "error",
                               restored |-> {"patients"},
                               msg |-> "Error: Some of this data already exists in the system."]
                    /\ UNCHANGED <<treatments, treatSeq>>
               ELSE /\ treatments' = treatments \cup new_treats
                    /\ treatSeq' = Max(treatSeq, MaxId({r.id : r \in new_treats}))
                    /\ out' = [op |-> "Restore", status |-> "success",
                               restored |-> {"patients", "treatments"},
                               msg |-> "Restored"]
    /\ UNCHANGED <<records, probe, canvas>>

RestoreMissingFile ==
    /\ out' = [op |-> "Restore", status |-> "error", restored |-> {},
               msg |-> "Please upload BOTH files to restore."]
    /\ UNCHANGED <<patients, treatments, patSeq, treatSeq, records, probe, canvas>>

Next ==
    \/ \E new_name \in Names, new_id \in UniqueIds : RegisterPatient(new_name, new_id)
    \/ \E selected_patient_id \in PatientIds, treatment_date \in Dates,
          is_paid \in BOOLEAN, paid_on \in PaymentDates, amount_paid \in PayAmounts :
            SaveRecord(selected_patient_id, treatment_date, is_paid, paid_on, amount_paid)
    \/ SaveRecordNoPatient
    \/ \E pat_id \in PatientIds : ViewRecords(pat_id)
    \/ \E pat_id \in PatientIds :
          \E deleted_ids \in SUBSET {t.id : t \in TreatmentsWhere(NumpyInt64(pat_id))} :
             \E edited \in EditedRows({t.id : t \in TreatmentsWhere(NumpyInt64(pat_id))} \ deleted_ids) :
                \E edits \in [edited -> EditorCells] :
                    SaveChanges(pat_id, deleted_ids, edits)
    \/ \E pat_id \in PatientIds, use_all_time \in BOOLEAN,
          start_date \in Dates, end_date \in Dates :
            GenerateStatement(pat_id, use_all_time, start_date, end_date)
    \/ \E pat_id \in PatientIds : DeletePatient(pat_id)
    \/ \E new_pats \in CsvFiles(PatientsCsvRows), new_treats \in CsvFiles(TreatmentsCsvRows) :
            Restore(new_pats, new_treats)
    \/ RestoreMissingFile

Spec == Init /\ [][Next]_vars

(***************************************************************************)
(* generate_pdf on its own: line-item lists of every length up to          *)
(* MaxItems, of four patterns of billed and paid amounts.                  *)
(***************************************************************************)
ItemKinds == <<[total |-> total, payment_amount |-> total],
               [total |-> total, payment_amount |-> 0],
               [total |-> total, payment_amount |-> 40000]>>

Item(i, pattern) ==
    LET kind == IF pattern <= Len(ItemKinds) THEN ItemKinds[pattern]
                ELSE ItemKinds[(i % Len(ItemKinds)) + 1]
    IN [id |-> i, patient_id |-> NumpyInt64(1), treatment_date |-> 1,
        subtotal |-> cost, tax |-> hst, total |-> kind.total,
        payment_amount |-> kind.payment_amount,
        payment_date |-> IF kind.payment_amount > 0 THEN 1 ELSE NoDate]

PdfInputs ==
    {[i \in 1..n |-> Item(i, pattern)] : n \in 0..MaxItems, pattern \in 1..(Len(ItemKinds) + 1)}

InitPdf ==
    /\ patients = {}
    /\ treatments = {}
    /\ patSeq = 0
    /\ treatSeq = 0
    /\ out = NoOut
    /\ records \in PdfInputs
    /\ probe = 0
    /\ canvas = NoCanvas

PdfStart ==
    /\ canvas = NoCanvas
    /\ out = NoOut
    /\ canvas' = [i |-> 1, table |-> TableStart]
    /\ UNCHANGED <<patients, treatments, patSeq, treatSeq, out, records, probe>>

PdfRow ==
    /\ canvas.i >= 1
    /\ canvas.i <= Len(records)
    /\ canvas' = [i |-> canvas.i + 1, table |-> DrawRow(canvas.table, records[canvas.i])]
    /\ UNCHANGED <<patients, treatments, patSeq, treatSeq, out, records, probe>>

PdfSummary ==
    /\ canvas.i > Len(records)
    /\ out' = [op |-> "generate_pdf",
               doc |-> Summary(DateStr(TRUE, NoDate, NoDate), canvas.table)]
    /\ canvas' = NoCanvas
    /\ UNCHANGED <<patients, treatments, patSeq, treatSeq, records, probe>>

NextPdf == PdfStart \/ PdfRow \/ PdfSummary

SpecPdf == InitPdf /\ [][NextPdf]_vars

(***************************************************************************)
(* The four classifications applied to one balance.                        *)
(***************************************************************************)
InitClassify ==
    /\ patients = {}
    /\ treatments = {}
    /\ patSeq = 0
    /\ treatSeq = 0
    /\ out = NoOut
    /\ records = <<>>
    /\ probe \in (-MaxBal)..MaxBal
    /\ canvas = NoCanvas

Classify ==
    /\ out' = [op |-> "classify", bal |-> probe,
               row |-> RowColor(probe),
               grand |-> GrandLabel(probe),
               entry |-> PaymentStatus(probe),
               standing |-> StandingMetric(probe)]
    /\ UNCHANGED <<patients, treatments, patSeq, treatSeq, records, probe, canvas>>

SpecClassify == InitClassify /\ [][Classify]_vars

(***************************************************************************)
(* Properties.                                                             *)
(***************************************************************************)
\* the patient a treatment row's patient_id names, whatever its storage class
Owner(t) == t.patient_id[2]

CeilDiv(a, b) == (a + b - 1) \div b

\* C1: every persisted treatment record has total = subtotal + tax, with tax
\* 13% of subtotal, after any sequence of the operations that write records.
C1_TotalIsSubtotalPlusTax ==
    \A t \in treatments :
        /\ t.total = t.subtotal + t.tax
        /\ t.tax * 100 = t.subtotal * 13

\* C2: for every balance the row colour and the grand balance label of
\* generate_pdf, the payment status of the New Treatment page and the standing
\* metric of the Patient Records page all stand for the same class: OWING
\* above 0.01, CREDIT below -0.01, SETTLED otherwise.
C2_SameClassification ==
    out.op = "classify" =>
        LET class == IF out.bal > 10 THEN "OWING"
                     ELSE IF out.bal < -10 THEN "CREDIT"
                     ELSE "SETTLED"
        IN /\ ClassOf(out.row) = class
           /\ ClassOf(out.grand) = class
           /\ ClassOf(out.entry) = class
           /\ ClassOf(out.standing) = class

C2_Witness ==
    /\ out.op = "classify"
    /\ out.bal = 9
    /\ out.row = "black"
    /\ out.grand = "BALANCE:"
    /\ out.entry = "Paid in Full"
    /\ out.standing = "OK"

\* C3 as amended: the first page holds 22 rows and every further page 33, so a
\* document of N line items has 1 page when N <= 22 and 1 + ceil((N - 22) / 33)
\* pages otherwise; the last page always carries the last row (no empty
\* trailing page).
C3_PagesByTwoCapacities ==
    out.op = "generate_pdf" =>
        /\ out.doc.pages = IF out.doc.n <= 22 THEN 1
                           ELSE 1 + CeilDiv(out.doc.n - 22, 33)
        /\ out.doc.n > 0 => out.doc.rows[out.doc.n].page = out.doc.pages

C3_Witness ==
    /\ out.op = "generate_pdf"
    /\ out.doc.n = 55
    /\ out.doc.pages = 2
    /\ out.doc.rows[55].y < PageBreakY + RowStep

\* C3 as stated: there is one page capacity C such that N line items make
\* ceil(N / C) pages, for the document drawn and for every shorter one (the
\* document of the first m items ends on the page of row m).
C3_OneCapacity ==
    (out.op = "generate_pdf" /\ out.doc.n >= 1) =>
        \E C \in 1..(MaxItems + 1) :
            \A m \in 1..out.doc.n : out.doc.rows[m].page = CeilDiv(m, C)

\* C4: no two patients have the same external identifier, and a Register
\* Patient step whose identifier an existing patient already has reports an
\* error and leaves the patients and treatments tables as they were.
C4_UniqueIdentifier ==
    [][/\ \A p, q \in patients' : p.unique_id = q.unique_id => p = q
       /\ (out'.op = "RegisterPatient"
           /\ \E p \in patients : p.unique_id = out'.new_id)
          => (/\ out'.status = "error"
              /\ patients' = patients
              /\ treatments' = treatments)]_vars

C4_Witness ==
    /\ out.op = "RegisterPatient"
    /\ out.status = "error"
    /\ \E p \in patients : p.unique_id = out.new_id
    /\ Cardinality(patients) = 2

\* C5: a Register Patient step with an empty full name or an empty patient
\* identifier is rejected as an error and writes no patient row.
C5_MissingFieldsRejected ==
    [][(out'.op = "RegisterPatient" /\ (out'.new_name = "" \/ out'.new_id = ""))
          => (out'.status = "error" /\ patients' = patients)]_vars

\* C6: right after Permanently Delete Patient for patient p the store holds no
\* patient row for p and no treatment record of p, and every other patient and
\* every treatment record of other patients is unchanged.
C6_DeleteCascades ==
    [][out'.op = "DeletePatient"
          => (/\ patients' = {p \in patients : p.id # out'.pat_id}
              /\ treatments' = {t \in treatments : Owner(t) # out'.pat_id})]_vars

\* C7: a statement request that matches no treatment record yields a document
\* with total billed 0.00, total paid 0.00 and the SETTLED class, and the
\* standing of a patient with no records shows zero totals and SETTLED.
C7_EmptySelectionIsSettled ==
    /\ (out.op = "GenerateStatement"
        /\ SelectRecords(out.pat_id, out.use_all_time, out.start_date, out.end_date) = <<>>)
       => (/\ out.status = "download"
           /\ out.doc.total_billed = 0
           /\ out.doc.total_paid = 0
           /\ ClassOf(out.doc.label) = "SETTLED")
    /\ (out.op = "PatientRecords" /\ TreatmentsWhere(NumpyInt64(out.pat_id)) = {})
       => (/\ out.standing.shown
           /\ out.standing.total_billed = 0
           /\ out.standing.total_paid = 0
           /\ ClassOf(out.standing.metric) = "SETTLED")

\* C8: every persisted treatment record has a payment date if and only if its
\* payment amount is greater than 0.
C8_PaymentDateIffPaid ==
    \A t \in treatments : (t.payment_date # NoDate) <=> (t.payment_amount > 0)

\* C9: a statement selects exactly the selected patient's treatment records,
\* those with start <= service date <= end, or all of them in "Select All
\* Time" mode whatever the start and end inputs, latest service date first and
\* ties in key order, under the period label "ALL TIME" in that mode and the
\* two boundary dates otherwise; no record of another patient is selected.
C9_SelectionIsThePatientsRecords ==
    out.op = "GenerateStatement" =>
        LET mine == {t \in treatments : Owner(t) = out.pat_id}
            wanted == IF out.use_all_time THEN mine
                      ELSE {t \in mine : /\ out.start_date <= t.treatment_date
                                         /\ t.treatment_date <= out.end_date}
            selected == IF out.status = "download" THEN out.doc.rows ELSE <<>>
        IN /\ {selected[k].id : k \in DOMAIN selected} = {t.id : t \in wanted}
           /\ Len(selected) = Cardinality(wanted)
           /\ \A j, k \in DOMAIN selected : j < k =>
                 LET a == CHOOSE t \in treatments : t.id = selected[j].id
                     b == CHOOSE t \in treatments : t.id = selected[k].id
                 IN \/ a.treatment_date > b.treatment_date
                    \/ a.treatment_date = b.treatment_date /\ a.id < b.id
           /\ out.status = "download" =>
                 IF out.use_all_time
                 THEN out.doc.period.text = "ALL TIME"
                 ELSE /\ out.doc.period.text # "ALL TIME"
                      /\ out.doc.period.from = out.start_date
                      /\ out.doc.period.to = out.end_date

\* C10: for every number of line items the rule, Total Billed, Total Paid and
\* the grand balance line are drawn above the footer line (y > 50) and not
\* below the bottom edge of the page (y >= 0).
C10_SummaryAboveFooter ==
    out.op = "generate_pdf" =>
        \A y \in {out.doc.rule_y, out.doc.billed_y, out.doc.paid_y, out.doc.balance_y} :
            y > 50 /\ y >= 0

\* C11: every persisted treatment record's patient_id is the id of a patient
\* that is in the patients table (no orphaned treatment records), after any
\* sequence of Register Patient, Save Record, Save Changes, Permanently Delete
\* Patient and CSV restore.
C11_NoOrphanedTreatments ==
    \A t \in treatments : \E p \in patients : p.id = Owner(t)
====
